---- MODULE Spec2Model ----
(***************************************************************************)
(* Model of breakIP.py: the address codec (ip_to_int / int_to_ip), the     *)
(* covering-prefix search (find_min_subnet) and the partition loop         *)
(* (split_subnets).                                                        *)
(*                                                                         *)
(* Representation.  A Python string is a sequence of one-character         *)
(* strings.  A 32-bit address value is the tuple of its four base-256      *)
(* digits, most significant first (the model checker's integers stop at    *)
(* 2^31 - 1, the addresses do not); shifts, AND, OR and NOT act on the 32  *)
(* bits of that tuple, comparison is numeric comparison of the values.     *)
(***************************************************************************)
EXTENDS Integers, Sequences, FiniteSets, Bags, TLC

(***************************************************************************)
(* 32-bit values.                                                          *)
(***************************************************************************)
\* x & y and x | y on octets
and8[x \in 0..255, y \in 0..255] ==
    IF x = 0 \/ y = 0 THEN 0
    ELSE 2 * and8[x \div 2, y \div 2] + (x % 2) * (y % 2)

or8(x, y) == x + y - and8[x, y]

\* a & b
And(a, b) == [i \in 1..4 |-> and8[a[i], b[i]]]

\* a | b
Or(a, b) == [i \in 1..4 |-> or8(a[i], b[i])]

\* ~a & 0xFFFFFFFF
Not32(a) == [i \in 1..4 |-> 255 - a[i]]

\* (a << n) & 0xFFFFFFFF, n >= 0: whole octets first, then the remaining bits
Shl32(a, n) ==
    LET q == n \div 8
        r == n % 8
        at(i) == IF i \in 1..4 THEN a[i] ELSE 0
    IN  [i \in 1..4 |-> ((at(i + q) * (2 ^ r)) % 256) + (at(i + q + 1) \div (2 ^ (8 - r)))]

\* (num >> n) & 0xFF, n in {0, 8, 16, 24}
ShrOctet(num, n) == num[4 - (n \div 8)]

\* octet << n for an octet in [0,255], n in {0, 8, 16, 24}
ShlOctet(octet, n) == [i \in 1..4 |-> IF i = 4 - (n \div 8) THEN octet ELSE 0]

\* a < b and a <= b on the values
Less(a, b) ==
    \E i \in 1..4 : a[i] < b[i] /\ \A j \in 1..(i - 1) : a[j] = b[j]

Leq(a, b) == a = b \/ Less(a, b)

ALL_ONES == <<255, 255, 255, 255>>

MASK_24 == <<255, 255, 255, 0>>

(***************************************************************************)
(* Python's str <-> int for decimal numerals.                              *)
(***************************************************************************)
Digits == <<"0", "1", "2", "3", "4", "5", "6", "7", "8", "9">>

DigitValue(c) == (CHOOSE d \in 1..10 : Digits[d] = c) - 1

\* int(text) for a text of decimal digits (leading zeros are accepted)
RECURSIVE int(_)
int(text) ==
    IF Len(text) = 1 THEN DigitValue(text[1])
    ELSE 10 * int(SubSeq(text, 1, Len(text) - 1)) + DigitValue(text[Len(text)])

\* str(n), the f-string rendering of a non-negative integer
RECURSIVE str(_)
str(n) ==
    IF n < 10 THEN <<Digits[n + 1]>>
    ELSE str(n \div 10) \o <<Digits[(n % 10) + 1]>>

\* text.split(sep)
RECURSIVE split(_, _)
split(text, sep) ==
    IF \A i \in 1..Len(text) : text[i] # sep THEN <<text>>
    ELSE LET p == CHOOSE i \in 1..Len(text) :
                    text[i] = sep /\ \A j \in 1..(i - 1) : text[j] # sep
         IN  <<SubSeq(text, 1, p - 1)>> \o split(SubSeq(text, p + 1, Len(text)), sep)

(***************************************************************************)
(* The address codec.                                                      *)
(***************************************************************************)
ip_to_int(ip) ==
    LET parts  == split(ip, ".")
        octets == [i \in 1..Len(parts) |-> int(parts[i])]
    IN  Or(Or(Or(ShlOctet(octets[1], 24), ShlOctet(octets[2], 16)),
              ShlOctet(octets[3], 8)),
           ShlOctet(octets[4], 0))

\* int_to_ip with the shifts of the two middle octets exchanged
int_to_ip_swapped(num) ==
    str(ShrOctet(num, 24)) \o <<".">> \o str(ShrOctet(num, 8)) \o <<".">>
        \o str(ShrOctet(num, 16)) \o <<".">> \o str(ShrOctet(num, 0))

int_to_ip(num) ==
    str(ShrOctet(num, 24)) \o <<".">> \o str(ShrOctet(num, 16)) \o <<".">>
        \o str(ShrOctet(num, 8)) \o <<".">> \o str(ShrOctet(num, 0))

(***************************************************************************)
(* Block size.                                                             *)
(***************************************************************************)
calculate_subnet_size(prefix_len) ==
    IF prefix_len < 0 \/ prefix_len > 32 THEN 0 ELSE 2 ^ (32 - prefix_len)

(***************************************************************************)
(* Python built-ins on lists of 32-bit values.                             *)
(***************************************************************************)
Range(seq) == {seq[i] : i \in DOMAIN seq}

min(ips_int) == CHOOSE m \in Range(ips_int) : \A x \in Range(ips_int) : Leq(m, x)

max(ips_int) == CHOOSE m \in Range(ips_int) : \A x \in Range(ips_int) : Leq(x, m)

\* seq with x inserted before the first element greater than x
RECURSIVE Insert(_, _)
Insert(seq, x) ==
    IF seq = <<>> THEN <<x>>
    ELSE IF Less(x, seq[1]) THEN <<x>> \o seq
    ELSE <<seq[1]>> \o Insert(Tail(seq), x)

RECURSIVE sorted(_)
sorted(seq) ==
    IF seq = <<>> THEN <<>>
    ELSE Insert(sorted(SubSeq(seq, 1, Len(seq) - 1)), seq[Len(seq)])

(***************************************************************************)
(* find_min_subnet, one piece per part of its body.                        *)
(***************************************************************************)
\* the mask shifted one bit too far
subnet_mask_off_by_one(prefix_len) == Shl32(ALL_ONES, 33 - prefix_len)

\* mask = (0xFFFFFFFF << (32 - prefix_len)) & 0xFFFFFFFF
subnet_mask(prefix_len) == Shl32(ALL_ONES, 32 - prefix_len)

\* network = min_ip & mask
network_of(min_ip, prefix_len) == And(min_ip, subnet_mask(prefix_len))

\* broadcast = network | (~mask & 0xFFFFFFFF)
broadcast_of(min_ip, prefix_len) ==
    Or(network_of(min_ip, prefix_len), Not32(subnet_mask(prefix_len)))

\* the containment test without its upper bound
all_in_block_lower_only(ips_int, prefix_len) ==
    \A i \in DOMAIN ips_int :
        Leq(And(min(ips_int), Shl32(ALL_ONES, 32 - prefix_len)), ips_int[i])

\* all(network <= ip <= broadcast for ip in ips_int)
all_in_block(ips_int, prefix_len) ==
    \E network \in {network_of(min(ips_int), prefix_len)} :
    \E broadcast \in {broadcast_of(min(ips_int), prefix_len)} :
        \A i \in DOMAIN ips_int : Leq(network, ips_int[i]) /\ Leq(ips_int[i], broadcast)

\* the tuple (cidr, start_ip, end_ip, prefix_len) built for prefix_len
subnet_tuple(ips_int, prefix_len) ==
    LET start_ip == int_to_ip(network_of(min(ips_int), prefix_len))
        end_ip   == int_to_ip(broadcast_of(min(ips_int), prefix_len))
        cidr     == start_ip \o <<"/">> \o str(prefix_len)
    IN  <<cidr, start_ip, end_ip, prefix_len>>

\* the loop's return with the prefix length already decremented
loop_return_off_by_one(ips_int, prefix_len) == subnet_tuple(ips_int, prefix_len - 1)

\* the fallback with 24 written in place of min_prefix
fallback_return_24(ips_int, min_prefix) == subnet_tuple(ips_int, 24)

\* the return inside the loop, at the prefix length that passed the test
loop_return(ips_int, prefix_len) == subnet_tuple(ips_int, prefix_len)

\* the return after the loop: min_prefix, whatever it covers
fallback_return(ips_int, min_prefix) == subnet_tuple(ips_int, min_prefix)

\* the while loop from the given prefix_len on, then the code after it
RECURSIVE find_from(_, _, _)
find_from(ips_int, min_prefix, prefix_len) ==
    IF prefix_len >= min_prefix
    THEN IF all_in_block(ips_int, prefix_len)
         THEN loop_return(ips_int, prefix_len)
         ELSE find_from(ips_int, min_prefix, prefix_len - 1)
    ELSE fallback_return(ips_int, min_prefix)

find_min_subnet(ips_int, min_prefix) == find_from(ips_int, min_prefix, 32)

(***************************************************************************)
(* split_subnets, one piece per part of the loop body.                     *)
(***************************************************************************)
\* the for loop: the run of same-/24 addresses at the head of rest
RECURSIVE same_24_run(_, _)
same_24_run(rest, current_24) ==
    IF rest = <<>> THEN <<>>
    ELSE IF And(rest[1], MASK_24) = current_24
         THEN <<rest[1]>> \o same_24_run(Tail(rest), current_24)
         ELSE <<>>

\* current_group when the for loop ends
group_of(remaining) ==
    <<remaining[1]>> \o same_24_run(Tail(remaining), And(remaining[1], MASK_24))

\* a group counted by its distinct addresses
is_single_distinct(group) == Cardinality(Range(group)) = 1

\* only the seed removed from the remaining sequence
remove_seed_only(remaining, group) == Tail(remaining)

\* len(current_group) == 1
is_single(group) == Len(group) = 1

\* [ip for ip in ips_int_sorted if ip not in current_group]
remove_group(remaining, group) ==
    SelectSeq(remaining, LAMBDA ip : ip \notin Range(group))

\* ratio = len(current_ips) / total_ips * 100, kept as the exact fraction num/den
ratio_of(count, total_ips) == [num |-> count * 100, den |-> total_ips]

\* the tuple (cidr, start_ip, end_ip, current_ips, total_ips, ratio)
aggregate_entry(found_subnet, group) ==
    LET current_ips == [i \in DOMAIN group |-> int_to_ip(group[i])]
        total_ips   == calculate_subnet_size(found_subnet[4])
    IN  <<found_subnet[1], found_subnet[2], found_subnet[3], current_ips, total_ips,
          ratio_of(Len(current_ips), total_ips)>>

\* the while loop of split_subnets and its return value
RECURSIVE split_loop(_, _, _, _)
split_loop(remaining, aggregates, singles, floor) ==
    IF remaining = <<>> THEN <<aggregates, singles>>
    ELSE LET group == group_of(remaining)
             rest  == remove_group(remaining, group)
         IN  IF is_single(group)
             THEN split_loop(rest, aggregates, Append(singles, int_to_ip(group[1])), floor)
             ELSE split_loop(rest,
                             Append(aggregates,
                                    aggregate_entry(find_min_subnet(group, floor), group)),
                             singles, floor)

\* the converted list left in input order
unsorted_ints(ip_list) == [i \in DOMAIN ip_list |-> ip_to_int(ip_list[i])]

\* ips_int_sorted as split_subnets first computes it
sorted_ints(ip_list) == sorted([i \in DOMAIN ip_list |-> ip_to_int(ip_list[i])])

split_subnets(ip_list, floor) == split_loop(sorted_ints(ip_list), <<>>, <<>>, floor)

(***************************************************************************)
(* Inputs of the checked runs.                                             *)
(***************************************************************************)
MaxIps == 3

MaxGroup == 3

FloorSpan == 9

\* sequences over S of length lo..hi
SeqsOf(S, lo, hi) == UNION {[1..n -> S] : n \in lo..hi}

\* address texts given to split_subnets: one /24 with three members (two of
\* them in one /30), its neighbour /24, and the two highest addresses
IpTexts ==
    { <<"1", "0", ".", "0", ".", "0", ".", "1">>,
      <<"1", "0", ".", "0", ".", "0", ".", "2">>,
      <<"1", "0", ".", "0", ".", "0", ".", "2", "0", "0">>,
      <<"1", "0", ".", "0", ".", "1", ".", "1">>,
      <<"2", "5", "5", ".", "2", "5", "5", ".", "2", "5", "5", ".", "2", "5", "4">>,
      <<"2", "5", "5", ".", "2", "5", "5", ".", "2", "5", "5", ".", "2", "5", "5">> }

\* min_prefix values given to split_subnets: the default and two above it
SplitFloors == {24, 28, 31}

\* addresses given to find_min_subnet on its own: two in one /31, a third in
\* their /24, one in the neighbour /24, and both ends of the address space
FindAddrs ==
    { <<0, 0, 0, 0>>, <<10, 0, 0, 2>>, <<10, 0, 0, 3>>, <<10, 0, 0, 200>>,
      <<10, 0, 1, 1>>, <<255, 255, 255, 255>> }

\* min_prefix values given to find_min_subnet on its own
FindFloors == (32 - FloorSpan)..32

\* octets and octet numerals of the codec runs
CodecOctets == {0, 1, 9, 10, 99, 100, 255}

CodecNumerals ==
    { <<"0">>, <<"7">>, <<"0", "7">>, <<"1", "0">>, <<"0", "1", "0">>,
      <<"1", "9", "9">>, <<"2", "5", "5">> }

CodecTexts ==
    { a \o <<".">> \o b \o <<".">> \o c \o <<".">> \o d :
        a \in CodecNumerals, b \in CodecNumerals, c \in CodecNumerals, d \in CodecNumerals }

(***************************************************************************)
(* State.                                                                  *)
(***************************************************************************)
VARIABLES
    pc,                 \* position: "start", "while", "find", "found", "done"; "codec<k>"
    ips,                \* split_subnets: the argument ips
    min_prefix,         \* split_subnets / find_min_subnet: the argument min_prefix
    ips_int_sorted,     \* split_subnets: the remaining sorted addresses
    aggregate_subnets,  \* split_subnets: aggregated subnets so far
    single_ips,         \* split_subnets: /32 addresses so far
    current_group,      \* the group being aggregated (find_min_subnet's ips_int)
    prefix_len,         \* find_min_subnet: the loop variable
    found,              \* find_min_subnet: the returned tuple
    iterations,         \* history: completed iterations of the while loop
    decrements,         \* history: prefix_len -= 1 executed in the current call
    codec_arg,          \* codec run: the value given
    codec_val           \* codec run: the value after the conversions so far

vars ==
    <<pc, ips, min_prefix, ips_int_sorted, aggregate_subnets, single_ips, current_group,
      prefix_len, found, iterations, decrements, codec_arg, codec_val>>

split_vars == <<ips, ips_int_sorted, aggregate_subnets, single_ips, iterations>>

find_vars == <<current_group, prefix_len, found, decrements>>

codec_vars == <<codec_arg, codec_val>>

NoValue == [kind |-> "none", v |-> <<>>]

(***************************************************************************)
(* Before any call: nothing computed yet.                                  *)
(***************************************************************************)
Init ==
    /\ pc = "start"
    /\ ips = <<>>
    /\ min_prefix = 24
    /\ ips_int_sorted = <<>>
    /\ aggregate_subnets = <<>>
    /\ single_ips = <<>>
    /\ current_group = <<>>
    /\ prefix_len = 32
    /\ found = <<>>
    /\ iterations = 0
    /\ decrements = 0
    /\ codec_arg = NoValue
    /\ codec_val = NoValue

(***************************************************************************)
(* split_subnets(ips, min_prefix).                                         *)
(***************************************************************************)
\* the call, up to the while loop: convert, sort, empty result lists
Enter ==
    /\ pc = "start"
    /\ \E ip_list \in SeqsOf(IpTexts, 0, MaxIps) :
        /\ ips' = ip_list
        /\ ips_int_sorted' = sorted_ints(ip_list)
    /\ min_prefix' \in SplitFloors
    /\ aggregate_subnets' = <<>>
    /\ single_ips' = <<>>
    /\ pc' = "while"
    /\ UNCHANGED iterations
    /\ UNCHANGED find_vars
    /\ UNCHANGED codec_vars

\* one iteration whose group has a single member
Single ==
    /\ pc = "while"
    /\ ips_int_sorted # <<>>
    /\ is_single(group_of(ips_int_sorted))
    /\ current_group' = group_of(ips_int_sorted)
    /\ single_ips' = Append(single_ips, int_to_ip(ips_int_sorted[1]))
    /\ ips_int_sorted' = remove_group(ips_int_sorted, current_group')
    /\ iterations' = iterations + 1
    /\ UNCHANGED <<pc, ips, min_prefix, aggregate_subnets, prefix_len, found, decrements>>
    /\ UNCHANGED codec_vars

\* an iteration whose group has several members, up to the call of find_min_subnet
Group ==
    /\ pc = "while"
    /\ ips_int_sorted # <<>>
    /\ ~is_single(group_of(ips_int_sorted))
    /\ current_group' = group_of(ips_int_sorted)
    /\ prefix_len' = 32
    /\ decrements' = 0
    /\ pc' = "find"
    /\ UNCHANGED <<min_prefix, found>>
    /\ UNCHANGED split_vars
    /\ UNCHANGED codec_vars

\* find_min_subnet: one pass of its while loop
FindLoop ==
    /\ pc = "find"
    /\ prefix_len >= min_prefix
    /\ IF all_in_block(current_group, prefix_len)
       THEN /\ found' = loop_return(current_group, prefix_len)
            /\ pc' = "found"
            /\ UNCHANGED <<prefix_len, decrements>>
       ELSE /\ prefix_len' = prefix_len - 1
            /\ decrements' = decrements + 1
            /\ UNCHANGED <<pc, found>>
    /\ UNCHANGED <<min_prefix, current_group>>
    /\ UNCHANGED split_vars
    /\ UNCHANGED codec_vars

\* find_min_subnet: the loop ended without a return
FindFallback ==
    /\ pc = "find"
    /\ prefix_len < min_prefix
    /\ found' = fallback_return(current_group, min_prefix)
    /\ pc' = "found"
    /\ UNCHANGED <<min_prefix, current_group, prefix_len, decrements>>
    /\ UNCHANGED split_vars
    /\ UNCHANGED codec_vars

\* the rest of the iteration after find_min_subnet returned
Aggregate ==
    /\ pc = "found"
    /\ aggregate_subnets' = Append(aggregate_subnets, aggregate_entry(found, current_group))
    /\ ips_int_sorted' = remove_group(ips_int_sorted, current_group)
    /\ iterations' = iterations + 1
    /\ pc' = "while"
    /\ UNCHANGED <<ips, min_prefix, single_ips>>
    /\ UNCHANGED find_vars
    /\ UNCHANGED codec_vars

\* return aggregate_subnets, single_ips
Return ==
    /\ pc = "while"
    /\ ips_int_sorted = <<>>
    /\ pc' = "done"
    /\ UNCHANGED <<min_prefix>>
    /\ UNCHANGED split_vars
    /\ UNCHANGED find_vars
    /\ UNCHANGED codec_vars

Next == Enter \/ Single \/ Group \/ FindLoop \/ FindFallback \/ Aggregate \/ Return

Spec == Init /\ [][Next]_vars

\* the interpreter runs the single thread until it returns
FairSpec == Spec /\ WF_vars(Next)

(***************************************************************************)
(* find_min_subnet(ips_int, min_prefix) called on its own.                 *)
(***************************************************************************)
\* the call, up to the while loop: prefix_len = 32
EnterFind ==
    /\ pc = "start"
    /\ current_group' \in SeqsOf(FindAddrs, 1, MaxGroup)
    /\ min_prefix' \in FindFloors
    /\ prefix_len' = 32
    /\ decrements' = 0
    /\ pc' = "find"
    /\ UNCHANGED found
    /\ UNCHANGED split_vars
    /\ UNCHANGED codec_vars

NextFind == EnterFind \/ FindLoop \/ FindFallback

SpecFind == Init /\ [][NextFind]_vars

(***************************************************************************)
(* ip_to_int and int_to_ip applied one after the other.                    *)
(***************************************************************************)
\* a 32-bit value or an address text is given
EnterCodec ==
    /\ pc = "start"
    /\ codec_arg' \in {[kind |-> "int", v |-> w] : w \in [1..4 -> CodecOctets]}
                        \cup {[kind |-> "str", v |-> s] : s \in CodecTexts}
    /\ codec_val' = codec_arg'
    /\ pc' = "codec0"
    /\ UNCHANGED min_prefix
    /\ UNCHANGED split_vars
    /\ UNCHANGED find_vars

CodecStep == pc \in {"codec0", "codec1"} /\ pc' = IF pc = "codec0" THEN "codec1" ELSE "codec2"

CallIpToInt ==
    /\ CodecStep
    /\ codec_val.kind = "str"
    /\ codec_val' = [kind |-> "int", v |-> ip_to_int(codec_val.v)]
    /\ UNCHANGED <<codec_arg, min_prefix>>
    /\ UNCHANGED split_vars
    /\ UNCHANGED find_vars

CallIntToIp ==
    /\ CodecStep
    /\ codec_val.kind = "int"
    /\ codec_val' = [kind |-> "str", v |-> int_to_ip(codec_val.v)]
    /\ UNCHANGED <<codec_arg, min_prefix>>
    /\ UNCHANGED split_vars
    /\ UNCHANGED find_vars

NextCodec == EnterCodec \/ CallIpToInt \/ CallIntToIp

SpecCodec == Init /\ [][NextCodec]_vars

(***************************************************************************)
(* Reference notions the properties are stated with.  They are computed    *)
(* octet by octet, without the masks and shifts of the program.            *)
(***************************************************************************)
\* how many of the prefix_len leading bits fall in octet i
KeptBits(p, i) == IF p >= 8 * i THEN 8 ELSE IF p <= 8 * (i - 1) THEN 0 ELSE p - 8 * (i - 1)

\* lowest and highest address sharing the p leading bits of a
BlockFloor(a, p) ==
    [i \in 1..4 |-> LET h == 2 ^ (8 - KeptBits(p, i)) IN (a[i] \div h) * h]

BlockCeil(a, p) ==
    [i \in 1..4 |-> LET h == 2 ^ (8 - KeptBits(p, i)) IN (a[i] \div h) * h + h - 1]

\* the block of min(group) at prefix length p contains every address of group
InBlock(group, p) ==
    \A i \in DOMAIN group :
        /\ Leq(BlockFloor(min(group), p), group[i])
        /\ Leq(group[i], BlockCeil(min(group), p))

\* b - a for two addresses of one block of at most 2^16 addresses
WordDiff(b, a) ==
    ((b[1] - a[1]) * 256 + (b[2] - a[2])) * 65536 + (b[3] - a[3]) * 256 + (b[4] - a[4])

\* the /24 network of an address text
Net24(text) == BlockFloor(ip_to_int(text), 24)

\* the multiset of the elements of a sequence
BagOfSeq(seq) == [x \in Range(seq) |-> Cardinality({i \in DOMAIN seq : seq[i] = x})]

\* concatenation of a sequence of sequences
RECURSIVE Flatten(_)
Flatten(seqs) == IF seqs = <<>> THEN <<>> ELSE seqs[1] \o Flatten(Tail(seqs))

\* fields of an aggregated subnet and of find_min_subnet's result
Members(agg) == agg[4]

TotalIps(agg) == agg[5]

Ratio(agg) == agg[6]

\* the prefix length written after the "/" of a CIDR text
CidrPrefix(cidr) == int(split(cidr, "/")[2])

Aggregates == Range(aggregate_subnets)

\* every address text handed out so far: members of aggregates, then singles
Emitted == Flatten([i \in DOMAIN aggregate_subnets |-> Members(aggregate_subnets[i])]) \o single_ips

RemainingTexts == [i \in DOMAIN ips_int_sorted |-> int_to_ip(ips_int_sorted[i])]

\* the input indices whose address lies in the same /24 as text
SameNet(text) == {i \in DOMAIN ips : Net24(ips[i]) = Net24(text)}

(***************************************************************************)
(* C1.  Partition completeness (floor 24): in every state of split_subnets *)
(* the addresses emitted so far together with the remaining sorted         *)
(* sequence form exactly the input multiset; at the return the emitted     *)
(* addresses alone do.                                                     *)
(***************************************************************************)
C1_PartitionComplete ==
    min_prefix = 24 =>
        /\ BagOfSeq(Emitted \o RemainingTexts) = BagOfSeq(ips)
        /\ pc = "done" => BagOfSeq(Emitted) = BagOfSeq(ips)

\* returned with a duplicated address aggregated and another address alone
C1_Witness ==
    /\ min_prefix = 24
    /\ pc = "done"
    /\ Len(ips) = 3
    /\ single_ips # <<>>
    /\ \E agg \in Aggregates : Members(agg)[1] = Members(agg)[2]

(***************************************************************************)
(* C2.  Coverage (floor 24): every member of an aggregated subnet lies     *)
(* between start_ip and end_ip, which are the lowest and highest address   *)
(* of the reported CIDR, and find_min_subnet never leaves its loop without *)
(* returning.                                                              *)
(***************************************************************************)
C2_Coverage ==
    min_prefix = 24 =>
        /\ \A agg \in Aggregates :
            /\ \A i \in DOMAIN Members(agg) :
                /\ Leq(ip_to_int(agg[2]), ip_to_int(Members(agg)[i]))
                /\ Leq(ip_to_int(Members(agg)[i]), ip_to_int(agg[3]))
            /\ ip_to_int(agg[2]) = BlockFloor(ip_to_int(agg[2]), CidrPrefix(agg[1]))
            /\ ip_to_int(agg[3]) = BlockCeil(ip_to_int(agg[2]), CidrPrefix(agg[1]))
            /\ CidrPrefix(agg[1]) \in 24..32
        /\ ~(pc = "find" /\ prefix_len < min_prefix)

\* returned with a group that needs the whole /24
C2_Witness ==
    /\ min_prefix = 24
    /\ pc = "done"
    /\ \E agg \in Aggregates : CidrPrefix(agg[1]) = 24 /\ Len(Members(agg)) = 3

(***************************************************************************)
(* C3.  Ratio bounds (default floor): 0 < ratio <= 100 for every           *)
(* aggregated subnet, that is 0 < member count <= total_ips.               *)
(***************************************************************************)
C3_RatioBounds ==
    min_prefix = 24 =>
        \A agg \in Aggregates :
            /\ 0 < Ratio(agg).num
            /\ Ratio(agg).num <= 100 * Ratio(agg).den
            /\ 0 < Len(Members(agg))
            /\ Len(Members(agg)) <= TotalIps(agg)

(***************************************************************************)
(* find_min_subnet has returned; through its loop, or after it.            *)
(***************************************************************************)
Returned == pc = "found"

ThroughLoop == pc = "found" /\ prefix_len >= min_prefix

ThroughFallback == pc = "found" /\ prefix_len < min_prefix

\* some prefix length from min_prefix to 32 gives a block holding the group
Coverable == \E p \in min_prefix..32 : InBlock(current_group, p)

C7_ForcedFallback ==
    (Returned /\ min_prefix \in 25..32 /\ ~Coverable) =>
        /\ found[4] = min_prefix
        /\ ip_to_int(found[2]) = BlockFloor(min(current_group), min_prefix)
        /\ ip_to_int(found[3]) = BlockCeil(min(current_group), min_prefix)
        /\ found[1] = found[2] \o <<"/">> \o str(min_prefix)
        /\ ThroughFallback

\* floor 28, a group spread over more than one /28, block reported all the same
C7_Witness ==
    /\ Returned
    /\ min_prefix = 28
    /\ ~Coverable
    /\ Len(current_group) >= 2
    /\ \E i \in DOMAIN current_group :
            ~Leq(current_group[i], ip_to_int(found[3]))

(***************************************************************************)
(* C10.  Descending first-accept search: the prefix lengths are tried in   *)
(* the order 32, 31, ..., floor, every one tried before the current one    *)
(* failed the containment test, and a return through the loop gives the    *)
(* first prefix length that passes: the block contains the group, the      *)
(* network is aligned, broadcast = network + 2^(32-P) - 1, and P = 32      *)
(* only when all addresses of the group are equal.                         *)
(***************************************************************************)
C10_DescendingFirstAccept ==
    /\ pc \in {"find", "found"} =>
        /\ prefix_len = 32 - decrements
        /\ prefix_len >= min_prefix - 1
        /\ \A p \in (prefix_len + 1)..32 : ~InBlock(current_group, p)
    /\ ThroughLoop =>
        LET network   == ip_to_int(found[2])
            broadcast == ip_to_int(found[3])
        IN  /\ found[4] = prefix_len
            /\ InBlock(current_group, found[4])
            /\ \A i \in DOMAIN current_group :
                    Leq(network, current_group[i]) /\ Leq(current_group[i], broadcast)
            /\ network = BlockFloor(network, found[4])
            /\ network = BlockFloor(min(current_group), found[4])
            /\ WordDiff(broadcast, network) = 2 ^ (32 - found[4]) - 1
            /\ found[4] = 32 => \A i \in DOMAIN current_group :
                                    current_group[i] = current_group[1]

\* a group across two /24 networks, accepted below /24
C10_Witness ==
    /\ ThroughLoop
    /\ found[4] < 24
    /\ Len(current_group) = 3

(***************************************************************************)
(* C6, as stated.  Both round trips are the identity: int to text to int,  *)
(* and text to int to text for every text of four decimal octets in        *)
(* [0,255].                                                                *)
(***************************************************************************)
C6_RoundTrip == pc = "codec2" => codec_val = codec_arg

\* no octet numeral of the text has a leading zero
Canonical(text) ==
    \A i \in DOMAIN split(text, ".") :
        LET part == split(text, ".")[i] IN Len(part) = 1 \/ part[1] # "0"

(***************************************************************************)
(* C6, amended.  ip_to_int(int_to_ip(n)) = n for every 32-bit n, and       *)
(* int_to_ip(ip_to_int(s)) = s for every text s of four decimal octets in  *)
(* [0,255] written without leading zeros; for a text with leading zeros    *)
(* the result is the text of the same address without them.                *)
(***************************************************************************)
C6_RoundTripCanonical ==
    pc = "codec2" =>
        /\ codec_arg.kind = "int" => codec_val = codec_arg
        /\ (codec_arg.kind = "str" /\ Canonical(codec_arg.v)) => codec_val = codec_arg
        /\ codec_arg.kind = "str" =>
            /\ Canonical(codec_val.v)
            /\ ip_to_int(codec_val.v) = ip_to_int(codec_arg.v)

\* a text with one-, two- and three-digit octets went through both conversions
C6_Witness ==
    /\ pc = "codec2"
    /\ codec_arg.kind = "str"
    /\ Canonical(codec_arg.v)
    /\ Len(codec_arg.v) = 10
    /\ codec_val = codec_arg

(***************************************************************************)
(* C5.  Classification: an aggregated subnet has at least two members      *)
(* (duplicates counted), a singleton shares its /24 with no other element  *)
(* of the input, and at the return an input address is a singleton exactly *)
(* when it is alone in its /24 and a member of an aggregated subnet        *)
(* exactly when it is not.  One address gives one singleton; two addresses *)
(* in different /24 networks give two singletons and no aggregated subnet. *)
(***************************************************************************)
C5_Classification ==
    /\ \A agg \in Aggregates : Len(Members(agg)) >= 2
    /\ \A i \in DOMAIN single_ips : Cardinality(SameNet(single_ips[i])) = 1
    /\ \A i \in DOMAIN Emitted : Emitted[i] \in Range(ips)
    /\ pc = "done" =>
        /\ \A i \in DOMAIN ips :
            /\ ips[i] \in Range(single_ips) <=> Cardinality(SameNet(ips[i])) = 1
            /\ (\E agg \in Aggregates : ips[i] \in Range(Members(agg)))
                    <=> Cardinality(SameNet(ips[i])) >= 2
        /\ Len(ips) = 1 => aggregate_subnets = <<>> /\ single_ips = ips
        /\ (Len(ips) = 2 /\ Net24(ips[1]) # Net24(ips[2])) =>
                aggregate_subnets = <<>> /\ Len(single_ips) = 2

\* returned with the same address twice in an aggregated subnet and a singleton
C5_Witness ==
    /\ pc = "done"
    /\ single_ips # <<>>
    /\ \E agg \in Aggregates : Len(Members(agg)) = 2 /\ Members(agg)[1] = Members(agg)[2]

(***************************************************************************)
(* C8.  Termination: split_subnets returns; every completed iteration      *)
(* shortens the remaining sequence and removes its seed; the number of     *)
(* iterations is the number of distinct /24 networks of the input; a call  *)
(* of find_min_subnet makes at most 32 - floor + 1 decrements.             *)
(***************************************************************************)
IterationEnds == iterations' = iterations + 1

C8_Termination ==
    /\ <>(pc = "done")
    /\ [][IterationEnds =>
            /\ Len(ips_int_sorted') < Len(ips_int_sorted)
            /\ ips_int_sorted[1] \notin Range(ips_int_sorted')]_vars
    /\ [](pc = "done" =>
            iterations = Cardinality({Net24(ips[i]) : i \in DOMAIN ips}))
    /\ [](iterations <= Cardinality({Net24(ips[i]) : i \in DOMAIN ips}))
    /\ [](decrements <= 32 - min_prefix + 1)

\* returned after two iterations, the search of one of them having run to the end
C8_Witness ==
    /\ pc = "done"
    /\ iterations = 2
    /\ Len(ips) = 3
    /\ decrements = 32 - min_prefix + 1

(***************************************************************************)
(* Grouping all addresses by /24 network, the groups taken in ascending    *)
(* network order and classified and aggregated as split_subnets does.      *)
(***************************************************************************)
\* the distinct elements of a sorted sequence, in order
RECURSIVE Distinct(_)
Distinct(seq) ==
    IF Len(seq) <= 1 THEN seq
    ELSE IF seq[1] = seq[2] THEN Distinct(Tail(seq))
         ELSE <<seq[1]>> \o Distinct(Tail(seq))

RECURSIVE GlobalLoop(_, _, _, _, _)
GlobalLoop(nets, ints, aggregates, singles, floor) ==
    IF nets = <<>> THEN <<aggregates, singles>>
    ELSE LET group == sorted(SelectSeq(ints, LAMBDA a : BlockFloor(a, 24) = nets[1]))
         IN  IF Len(group) = 1
             THEN GlobalLoop(Tail(nets), ints, aggregates,
                             Append(singles, int_to_ip(group[1])), floor)
             ELSE GlobalLoop(Tail(nets), ints,
                             Append(aggregates,
                                    aggregate_entry(find_min_subnet(group, floor), group)),
                             singles, floor)

GlobalPartition(ip_list, floor) ==
    LET ints == [i \in DOMAIN ip_list |-> ip_to_int(ip_list[i])]
        nets == Distinct(sorted([i \in DOMAIN ints |-> BlockFloor(ints[i], 24)]))
    IN  GlobalLoop(nets, ints, <<>>, <<>>, floor)

\* positions i < j < k of seq with seq[i], seq[k] in one /24 and seq[j] in another
Interleaved(seq) ==
    \E i, j, k \in DOMAIN seq :
        /\ i < j /\ j < k
        /\ BlockFloor(seq[i], 24) = BlockFloor(seq[k], 24)
        /\ BlockFloor(seq[j], 24) # BlockFloor(seq[i], 24)

(***************************************************************************)
(* C9, as stated.  Some input list makes split_subnets return something    *)
(* else than the global grouping by /24 does.                              *)
(***************************************************************************)
C9_GreedyDiffers ==
    \E ip_list \in SeqsOf(IpTexts, 0, MaxIps) : \E floor \in SplitFloors :
        split_subnets(ip_list, floor) # GlobalPartition(ip_list, floor)

(***************************************************************************)
(* C9, amended.  split_subnets groups the run of same-/24 addresses at the *)
(* head of the sorted sequence, and because the sequence is sorted that    *)
(* run is the whole /24: no sorted sequence has two addresses of one /24   *)
(* separated by an address of another, and for every input list the        *)
(* result equals that of the global grouping by /24.                       *)
(***************************************************************************)
C9_GreedyEqualsGlobal ==
    /\ ~Interleaved(ips_int_sorted)
    /\ pc = "done" =>
        /\ <<aggregate_subnets, single_ips>> = GlobalPartition(ips, min_prefix)
        /\ <<aggregate_subnets, single_ips>> = split_subnets(ips, min_prefix)

\* returned for an input list whose own order is interleaved
C9_Witness ==
    /\ pc = "done"
    /\ Interleaved([i \in DOMAIN ips |-> ip_to_int(ips[i])])
    /\ aggregate_subnets # <<>>
    /\ single_ips # <<>>

====
